---- MODULE Spec2Model ----
(***************************************************************************)
(* Gas Pipeline Maintenance Predictor (app.py).                            *)
(*                                                                         *)
(* The script is executed from top to bottom by the Streamlit runtime:     *)
(* once when the page is opened and once more after every interaction     *)
(* with a widget (a number input, a select box, the Predict button).       *)
(* Each execution starts with a fresh namespace; only the CSV file on disk *)
(* and st.session_state survive from one execution to the next.            *)
(*                                                                         *)
(* Spec is the whole application on a few sample files and on every file   *)
(* startup fails on; SpecTrain is startup alone (lines 12-36) on every     *)
(* file of at most MaxRows rows.                                           *)
(*                                                                         *)
(* Data frames are records [columns, rows]: columns is the ordered list of *)
(* column names, rows the list of rows, each row a function from the       *)
(* column names to the cell values.  Indicator cells are written 1 / 0.    *)
(***************************************************************************)
EXTENDS Integers, Sequences, FiniteSets, TLC

VARIABLES file, pc, error, runs, clicked, dataset, X, y, model,
          session_state, material_options, grade_options, material, grade,
          input_data, prediction

vars == <<file, pc, error, runs, clicked, dataset, X, y, model,
          session_state, material_options, grade_options, material, grade,
          input_data, prediction>>

(* ------------------------------ bounds -------------------------------- *)

\* largest number of data rows in the CSV file
MaxRows == 3
\* largest value typed into a number input
MaxVal == 2
\* largest number of executions of the script in one session
MaxRuns == 4

(* --------------------------- generic helpers --------------------------- *)

Range(s) == {s[i] : i \in 1..Len(s)}

\* the entries of s that satisfy keep, in the order of s
RECURSIVE Filter(_, _)
Filter(s, keep) ==
    IF s = <<>> THEN <<>>
    ELSE (IF Head(s) \in keep THEN <<Head(s)>> ELSE <<>>) \o Filter(Tail(s), keep)

\* a value no variable of the script holds before its assignment
Undef == [undef |-> TRUE]

\* an empty cell of the CSV file, read by pandas as NaN
NaN == "NaN"

(* ------------------------- Python str ordering ------------------------- *)

\* the strings of the model in Python's str order (code point order)
StrOrder == <<"A", "B", "Copper", "No Grade Data", "No Material Data",
              "PVC", "Steel", "Unknown">>

Rank(s) == CHOOSE i \in 1..Len(StrOrder) : StrOrder[i] = s

\* sorted(values)
RECURSIVE sorted(_)
sorted(S) ==
    IF S = {} THEN <<>>
    ELSE LET m == CHOOSE v \in S : \A w \in S : Rank(v) <= Rank(w)
         IN  <<m>> \o sorted(S \ {m})

(* ------------------------------ pandas --------------------------------- *)

\* DataFrame.drop(columns=cols); the caller checks that cols are present
drop(df, cols) ==
    LET keep == Filter(df.columns, Range(df.columns) \ cols)
    IN  [columns |-> keep,
         rows    |-> [i \in 1..Len(df.rows) |->
                        [c \in Range(keep) |-> df.rows[i][c]]]]

\* Series.dropna().unique().tolist(): the values in order of first appearance
RECURSIVE unique(_, _, _)
unique(rows, c, seen) ==
    IF rows = <<>> THEN <<>>
    ELSE LET v == Head(rows)[c]
         IN  IF v = NaN \/ v \in seen
             THEN unique(Tail(rows), c, seen)
             ELSE <<v>> \o unique(Tail(rows), c, seen \cup {v})

\* the categories in order of first appearance instead of sorted order
levels_by_appearance(df, c) == unique(df.rows, c, {})

\* the categories get_dummies finds in column c: the non-missing values, sorted
levels(df, c) == sorted({df.rows[i][c] : i \in 1..Len(df.rows)} \ {NaN})

\* the indicator columns with the first category kept
dummy_cols_keep_first(df, c, drop_first) ==
    LET lv == levels(df, c)
    IN  [i \in 1..Len(lv) |->
           [name |-> c \o "_" \o lv[i], field |-> c, level |-> lv[i]]]

\* the indicator columns get_dummies makes for column c
dummy_cols(df, c, drop_first) ==
    LET lv   == levels(df, c)
        kept == IF drop_first /\ lv # <<>> THEN Tail(lv) ELSE lv
    IN  [i \in 1..Len(kept) |->
           [name |-> c \o "_" \o kept[i], field |-> c, level |-> kept[i]]]

\* pd.get_dummies(df, columns=cols, drop_first=drop_first), cols a list of
\* columns of df
RECURSIVE all_dummies(_, _, _)
all_dummies(df, cols, drop_first) ==
    IF cols = <<>> THEN <<>>
    ELSE dummy_cols(df, Head(cols), drop_first)
             \o all_dummies(df, Tail(cols), drop_first)

get_dummies(df, cols, drop_first) ==
    LET others == Filter(df.columns, Range(df.columns) \ Range(cols))
        dums   == all_dummies(df, cols, drop_first)
        names  == [i \in 1..Len(dums) |-> dums[i].name]
    IN  [columns |-> others \o names,
         rows    |-> [i \in 1..Len(df.rows) |->
                        [n \in Range(others) \cup Range(names) |->
                           IF n \in Range(others) THEN df.rows[i][n]
                           ELSE LET d == CHOOSE d \in Range(dums) : d.name = n
                                IN  IF df.rows[i][d.field] = d.level
                                    THEN 1 ELSE 0]]]

\* the frame left as it is, not aligned to cols
reindex_noop(df, cols, fill) == df

\* DataFrame.reindex(columns=cols, fill_value=fill)
reindex(df, cols, fill) ==
    [columns |-> cols,
     rows    |-> [i \in 1..Len(df.rows) |->
                    [c \in Range(cols) |->
                       IF c \in Range(df.columns) THEN df.rows[i][c]
                       ELSE fill]]]

(* --------------------------- the CSV file ------------------------------ *)

\* the numeric columns of a submitted record (input_data, lines 177-179)
NumericCols == <<"Pipe_Size_mm", "Thickness_mm", "Max_Pressure_psi",
                 "Temperature_C", "Corrosion_Impact_Percent",
                 "Thickness_Loss_mm", "Material_Loss_Percent", "Time_Years">>

\* the header the script expects
HeaderFull == NumericCols \o <<"Material", "Grade", "Condition">>

\* a file with fewer numeric columns, in another order
HeaderAlt == <<"Time_Years", "Grade", "Max_Pressure_psi", "Material",
               "Condition", "Pipe_Size_mm">>

Headers == {HeaderFull, HeaderAlt,
            Filter(HeaderFull, Range(HeaderFull) \ {"Condition"}),
            Filter(HeaderFull, Range(HeaderFull) \ {"Material"}),
            Filter(HeaderFull, Range(HeaderFull) \ {"Grade"})}

\* the kinds of data row a file is made of; row kind k holds 10*k + j in its
\* j-th numeric column
RowKinds == << [Material |-> "Steel",  Grade |-> "B", Condition |-> "Critical"],
               [Material |-> "PVC",    Grade |-> "A", Condition |-> "Normal"],
               [Material |-> "Copper", Grade |-> "A", Condition |-> "Moderate"],
               [Material |-> NaN,      Grade |-> "B", Condition |-> "Normal"],
               [Material |-> "PVC",    Grade |-> NaN, Condition |-> "Critical"] >>

ColIndex(c) == CHOOSE j \in 1..Len(NumericCols) : NumericCols[j] = c

FileRow(h, k) ==
    [c \in Range(h) |->
       IF c = "Material" THEN RowKinds[k].Material
       ELSE IF c = "Grade" THEN RowKinds[k].Grade
       ELSE IF c = "Condition" THEN RowKinds[k].Condition
       ELSE 10 * k + ColIndex(c)]

KindSeqs == UNION {[1..n -> 1..Len(RowKinds)] : n \in 0..MaxRows}

FileOf(h, ks) ==
    [readable |-> TRUE, columns |-> h,
     rows |-> [i \in 1..Len(ks) |-> FileRow(h, ks[i])]]

Unreadable == [readable |-> FALSE, columns |-> <<>>, rows |-> <<>>]

\* every file of at most MaxRows rows, and the unreadable file
Files == {Unreadable} \cup {FileOf(h, ks) : h \in Headers, ks \in KindSeqs}

\* the files the form is exercised on: three materials and two grades; two
\* materials; no material value; no grade value; missing values in both
SampleSeqs == {<<1, 2, 3>>, <<2, 1>>, <<4, 4>>, <<5, 5>>, <<4, 2, 5>>}

\* the sample files, and every file on which startup ends in an error
AppFiles ==
    {FileOf(h, ks) : h \in {HeaderFull, HeaderAlt}, ks \in SampleSeqs} \cup
    {f \in Files : \/ ~f.readable
                    \/ Len(f.rows) < 2
                    \/ {"Condition", "Material", "Grade"} \ Range(f.columns) # {}}

(* ------------------------------ widgets -------------------------------- *)

NumberKeys == {"pressure", "temp", "corrosion", "loss", "years"}

\* st.session_state.get(key, default)
get(state, key, default) ==
    IF key \in DOMAIN state THEN state[key] ELSE default

\* a keyed widget: its value is the one session_state holds, else its default
widget(state, key, default) ==
    IF key \in DOMAIN state THEN state
    ELSE [k \in DOMAIN state \cup {key} |->
            IF k = key THEN default ELSE state[k]]

\* a keyed select box: a stored value that is no longer an option is replaced
\* by the first option
selectbox(state, key, options) ==
    IF key \in DOMAIN state /\ state[key] \in Range(options) THEN state
    ELSE [k \in DOMAIN state \cup {key} |->
            IF k = key THEN options[1] ELSE state[k]]

(* ------------------------------- state --------------------------------- *)

InitWith(F) ==
    /\ file \in F
    /\ pc = "l12"
    /\ error = "none"
    /\ runs = 1
    /\ clicked = FALSE
    /\ dataset = Undef /\ X = Undef /\ y = Undef /\ model = Undef
    /\ session_state = [k \in {} |-> 0]
    /\ material_options = Undef /\ grade_options = Undef
    /\ material = Undef /\ grade = Undef
    /\ input_data = Undef /\ prediction = Undef

\* the session opens on one of the application's files
Init == InitWith(AppFiles)

\* startup alone, on every file
InitTrain == InitWith(Files)

\* an uncaught exception ends the execution of the script
Raise(e) == pc' = "failed" /\ error' = e

(* ------------------------- the script, line by line -------------------- *)

\* line 12: dataset = pd.read_csv(...)
ReadCsv ==
    /\ pc = "l12"
    /\ IF file.readable
       THEN /\ dataset' = [columns |-> file.columns, rows |-> file.rows]
            /\ pc' = "l23"
            /\ UNCHANGED error
       ELSE /\ Raise("FileNotFoundError")
            /\ UNCHANGED dataset
    /\ UNCHANGED <<file, runs, clicked, X, y, model, session_state,
                   material_options, grade_options, material, grade,
                   input_data, prediction>>

\* lines 23-24: X = dataset.drop(columns=['Condition']); y = dataset['Condition']
DropTarget ==
    /\ pc = "l23"
    /\ IF "Condition" \in Range(dataset.columns)
       THEN /\ X' = drop(dataset, {"Condition"})
            /\ y' = [i \in 1..Len(dataset.rows) |-> dataset.rows[i]["Condition"]]
            /\ pc' = "l25"
            /\ UNCHANGED error
       ELSE /\ Raise("KeyError")
            /\ UNCHANGED <<X, y>>
    /\ UNCHANGED <<file, runs, clicked, dataset, model, session_state,
                   material_options, grade_options, material, grade,
                   input_data, prediction>>

\* line 25 encoding only the categorical columns the file has
EncodeTraining_lenient ==
    /\ pc = "l25"
    /\ X' = get_dummies(X, Filter(<<"Material", "Grade">>, Range(X.columns)),
                        TRUE)
    /\ pc' = "l26"
    /\ UNCHANGED <<file, error, runs, clicked, dataset, y, model,
                   session_state, material_options, grade_options, material,
                   grade, input_data, prediction>>

\* line 25: X = pd.get_dummies(X, columns=['Material', 'Grade'], drop_first=True)
EncodeTraining ==
    /\ pc = "l25"
    /\ IF {"Material", "Grade"} \subseteq Range(X.columns)
       THEN /\ X' = get_dummies(X, <<"Material", "Grade">>, TRUE)
            /\ pc' = "l26"
            /\ UNCHANGED error
       ELSE /\ Raise("KeyError")
            /\ UNCHANGED X
    /\ UNCHANGED <<file, runs, clicked, dataset, y, model, session_state,
                   material_options, grade_options, material, grade,
                   input_data, prediction>>

\* train_test_split(..., test_size=0.2): the number of training rows
n_train(n) == n - ((n + 4) \div 5)

\* lines 26-36: split, fit and evaluate.  The fitted tree is kept as the
\* column list it was fitted on and the labels it can answer with.
FitModel ==
    /\ pc = "l26"
    /\ IF n_train(Len(X.rows)) >= 1
       THEN /\ model' = [feature_names_in_ |-> X.columns, labels |-> Range(y)]
            /\ pc' = "l152"
            /\ UNCHANGED error
       ELSE /\ Raise("ValueError")
            /\ UNCHANGED model
    /\ UNCHANGED <<file, runs, clicked, dataset, X, y, session_state,
                   material_options, grade_options, material, grade,
                   input_data, prediction>>

\* lines 160-165: the options of a select box
options(df, c, none, empty) ==
    LET found == IF c \in Range(df.columns) THEN unique(df.rows, c, {})
                 ELSE <<none>>
    IN  IF found = <<>> THEN <<empty>> ELSE found

\* lines 152-167: the five number inputs and the two select boxes
RenderForm ==
    /\ pc = "l152"
    /\ LET mo == options(dataset, "Material", "Unknown", "No Material Data")
           go == options(dataset, "Grade", "Unknown", "No Grade Data")
           s1 == widget(session_state, "pressure", 0)
           s2 == widget(s1, "temp", 0)
           s3 == widget(s2, "corrosion", 0)
           s4 == widget(s3, "loss", 0)
           s5 == widget(s4, "years", 0)
           s6 == selectbox(s5, "material", mo)
           s7 == selectbox(s6, "grade", go)
       IN  /\ material_options' = mo
           /\ grade_options' = go
           /\ session_state' = s7
           /\ material' = s7["material"]
           /\ grade' = s7["grade"]
    /\ pc' = "l170"
    /\ UNCHANGED <<file, error, runs, clicked, dataset, X, y, model,
                   input_data, prediction>>

(* ----------------------- the Predict Condition handler ----------------- *)

\* line 176: the value list of the submitted record, after lines 171-175
input_values(state, m, g) ==
    <<get(state, "pressure", 0), get(state, "temp", 0),
      get(state, "corrosion", 0), get(state, "loss", 0), 0,
      get(state, "years", 0), 0, 0, m, g>>

\* lines 177-179: the column list of the submitted record
input_columns == NumericCols \o <<"Material", "Grade">>

\* pd.DataFrame([values], columns=columns): the j-th value is the cell of the
\* j-th column
DataFrame(values, columns) ==
    [columns |-> columns,
     rows    |-> << [c \in Range(columns) |->
                       values[CHOOSE j \in 1..Len(columns) : columns[j] = c]] >>]

\* the record encoded with drop_first=False
encode_input_keep_first(values, schema) ==
    reindex(get_dummies(DataFrame(values, input_columns),
                        <<"Material", "Grade">>, FALSE),
            schema, 0)

\* the record aligned to the schema with the columns the schema lacks kept
encode_input_keep_extra(values, schema) ==
    LET df == get_dummies(DataFrame(values, input_columns),
                          <<"Material", "Grade">>, TRUE)
    IN  reindex(df, schema \o Filter(df.columns,
                                     Range(df.columns) \ Range(schema)), 0)

\* lines 176-181: the record handed to the classifier
encode_input(values, schema) ==
    reindex(get_dummies(DataFrame(values, input_columns),
                        <<"Material", "Grade">>, TRUE),
            schema, 0)

\* the handler with the encoded record stored in X as well
Predict_overwrites_X ==
    /\ pc = "l170"
    /\ clicked
    /\ LET enc == encode_input(input_values(session_state, material, grade),
                               X.columns)
       IN  /\ input_data' = enc
           /\ X' = enc
           /\ \E label \in model.labels : prediction' = label
    /\ pc' = "idle"
    /\ UNCHANGED <<file, error, runs, clicked, dataset, y, model,
                   session_state, material_options, grade_options, material,
                   grade>>

\* lines 170-184, the button was pressed: build the record, encode it, ask the
\* classifier.  model.predict rejects a record whose columns are not the ones
\* it was fitted on; its answer is one of the labels it was fitted on.
Predict ==
    /\ pc = "l170"
    /\ clicked
    /\ LET enc == encode_input(input_values(session_state, material, grade),
                               X.columns)
       IN  /\ input_data' = enc
           /\ IF enc.columns = model.feature_names_in_
              THEN /\ \E label \in model.labels : prediction' = label
                   /\ pc' = "idle"
                   /\ UNCHANGED error
              ELSE /\ Raise("ValueError")
                   /\ UNCHANGED prediction
    /\ UNCHANGED <<file, runs, clicked, dataset, X, y, model, session_state,
                   material_options, grade_options, material, grade>>

\* line 170, the button was not pressed: the handler is skipped
SkipPredict ==
    /\ pc = "l170"
    /\ ~clicked
    /\ pc' = "idle"
    /\ UNCHANGED <<file, error, runs, clicked, dataset, X, y, model,
                   session_state, material_options, grade_options, material,
                   grade, input_data, prediction>>

(* --------------------------- the user's actions ------------------------ *)

\* an interaction stores the widget's new value and runs the script again,
\* from line 12, in a fresh namespace
Rerun(state, button) ==
    /\ pc = "idle"
    /\ runs < MaxRuns
    /\ session_state' = state
    /\ clicked' = button
    /\ runs' = runs + 1
    /\ pc' = "l12"
    /\ dataset' = Undef /\ X' = Undef /\ y' = Undef /\ model' = Undef
    /\ material_options' = Undef /\ grade_options' = Undef
    /\ material' = Undef /\ grade' = Undef
    /\ input_data' = Undef /\ prediction' = Undef
    /\ UNCHANGED <<file, error>>

\* lines 154-159: the user types a value into a number input
SetNumber ==
    \E k \in NumberKeys, v \in 0..MaxVal :
        /\ pc = "idle"
        /\ v # session_state[k]
        /\ Rerun([session_state EXCEPT ![k] = v], FALSE)

\* line 166: the user selects another material
SelectMaterial ==
    /\ pc = "idle"
    /\ \E m \in Range(material_options) :
        /\ m # session_state["material"]
        /\ Rerun([session_state EXCEPT !["material"] = m], FALSE)

\* line 167: the user selects another grade
SelectGrade ==
    /\ pc = "idle"
    /\ \E g \in Range(grade_options) :
        /\ g # session_state["grade"]
        /\ Rerun([session_state EXCEPT !["grade"] = g], FALSE)

\* line 170: the user presses Predict Condition
ClickPredict ==
    /\ pc = "idle"
    /\ Rerun(session_state, TRUE)

Next ==
    \/ ReadCsv
    \/ DropTarget
    \/ EncodeTraining
    \/ FitModel
    \/ RenderForm
    \/ Predict
    \/ SkipPredict
    \/ SetNumber
    \/ SelectMaterial
    \/ SelectGrade
    \/ ClickPredict

Spec == Init /\ [][Next]_vars

\* lines 12-36 alone: one execution of the script up to the fitted model
NextTrain ==
    \/ ReadCsv
    \/ DropTarget
    \/ EncodeTraining
    \/ FitModel

SpecTrain == InitTrain /\ [][NextTrain]_vars

(* ------------------------------ properties ----------------------------- *)

\* line 25 has completed in this execution: X is the encoded training frame
SchemaRecorded ==
    /\ X # Undef
    /\ pc # "l25"
    /\ ~(pc = "failed" /\ error = "KeyError")

\* the handler has built a record in this execution
Submitted == input_data # Undef

\* the values of column c the file holds
Observed(c) == {file.rows[i][c] : i \in 1..Len(file.rows)} \ {NaN}

\* the indicator columns of field f in a column list
Indicators(f, columns) ==
    {f \o "_" \o v : v \in Range(StrOrder)} \cap Range(columns)

CategoricalFields == {"Material", "Grade"}

\* the value submitted for field f
Selected(f) == IF f = "Material" THEN material ELSE grade

\* C1: the record handed to the classifier has exactly the columns of the
\* training schema X.columns, in the same order, whatever was submitted.
C1_ReindexTotality ==
    Submitted =>
        /\ input_data.columns = X.columns
        /\ Len(input_data.rows) = 1
        /\ DOMAIN input_data.rows[1] = Range(X.columns)

\* a submission for which the schema both lacks a column of the record and has
\* a column the record lacks
C1_Witness ==
    /\ Submitted
    /\ pc = "idle"
    /\ Range(input_columns) \ (Range(X.columns) \cup CategoricalFields) # {}
    /\ Range(X.columns) \ Range(input_columns) # {}
    /\ input_data.columns = X.columns

\* C2: a submitted category seen in training and not the dropped baseline has
\* its own indicator 1 and the field's other indicators 0; the baseline has
\* all the field's indicators 0.
C2_IndicatorOfSelected ==
    Submitted =>
        \A f \in CategoricalFields :
            Selected(f) \in Observed(f) =>
                \A v \in Range(StrOrder) :
                    (f \o "_" \o v) \in Range(X.columns) =>
                        input_data.rows[1][f \o "_" \o v]
                            = (IF v = Selected(f) THEN 1 ELSE 0)

\* the schema column each number input is labelled for (lines 154-159)
FieldColumn == [pressure  |-> "Max_Pressure_psi",
                temp      |-> "Temperature_C",
                corrosion |-> "Corrosion_Impact_Percent",
                loss      |-> "Thickness_Loss_mm",
                years     |-> "Time_Years"]

\* C3: each number the user entered is the value of the schema column of the
\* field it was entered for.
C3_NumericPassthrough ==
    Submitted =>
        \A k \in NumberKeys :
            FieldColumn[k] \in Range(X.columns) =>
                input_data.rows[1][FieldColumn[k]] = session_state[k]

\* the handler has run in this execution, to its end or to an error
HandlerRan == clicked /\ model # Undef /\ pc \in {"idle", "failed"}

\* C4: a submission whose Material or Grade never appeared in training is
\* encoded without an error, has every indicator of that field 0 and no column
\* for the unseen value, and is answered by the classifier.
C4_UnseenCategory ==
    HandlerRan =>
        \A f \in CategoricalFields :
            Selected(f) \notin Observed(f) =>
                /\ error = "none"
                /\ pc = "idle"
                /\ prediction \in model.labels
                /\ (f \o "_" \o Selected(f)) \notin Range(input_data.columns)
                /\ \A c \in Indicators(f, X.columns) : input_data.rows[1][c] = 0
                /\ input_data.columns = X.columns

\* a submission of the stand-in material of a file without material values
C4_Witness ==
    /\ HandlerRan
    /\ pc = "idle"
    /\ material = "No Material Data"
    /\ Observed("Material") = {}
    /\ prediction \in model.labels

\* the rows of the training frame that hold v in field f
RowsOf(f, v) == {i \in 1..Len(dataset.rows) : dataset.rows[i][f] = v}

AllZero(f, v) ==
    \A i \in RowsOf(f, v), c \in Indicators(f, X.columns) : X.rows[i][c] = 0

OwnOnly(f, v) ==
    /\ (f \o "_" \o v) \in Range(X.columns)
    /\ \A i \in RowsOf(f, v), c \in Indicators(f, X.columns) :
           X.rows[i][c] = (IF c = f \o "_" \o v THEN 1 ELSE 0)

\* C5: in the training encoding a field with k >= 1 observed values has k-1
\* indicator columns, exactly one observed value has all of them 0 in its rows,
\* every other observed value has its own indicator 1 and the others 0, and the
\* other columns are passed through unchanged.
C5_DropFirst ==
    SchemaRecorded =>
        /\ \A f \in CategoricalFields :
               Observed(f) # {} =>
                   /\ Cardinality(Indicators(f, X.columns))
                          = Cardinality(Observed(f)) - 1
                   /\ \E b \in Observed(f) :
                          /\ AllZero(f, b)
                          /\ \A v \in Observed(f) \ {b} :
                                 OwnOnly(f, v) /\ ~AllZero(f, v)
        /\ Len(X.rows) = Len(dataset.rows)
        /\ \A c \in Range(dataset.columns) \ (CategoricalFields \cup {"Condition"}) :
               /\ c \in Range(X.columns)
               /\ \A i \in 1..Len(dataset.rows) : X.rows[i][c] = dataset.rows[i][c]

\* a training frame with three materials and two grades
C5_Witness ==
    /\ SchemaRecorded
    /\ Cardinality(Observed("Material")) = 3
    /\ Cardinality(Observed("Grade")) = 2
    /\ Cardinality(Indicators("Material", X.columns)) = 2

\* the frame read from the file
FileFrame == [columns |-> file.columns, rows |-> file.rows]

\* lines 12-36 have completed in this execution
StartupFinished == pc \in {"l152", "l170", "idle"}

\* C6: once startup has finished, and after any number of requests, X and the
\* fitted model are the ones startup made from the file, and a submitted record
\* has the column list the classifier was fitted on.
C6_SchemaImmutable ==
    StartupFinished =>
        /\ X = get_dummies(drop(FileFrame, {"Condition"}),
                           <<"Material", "Grade">>, TRUE)
        /\ model = [feature_names_in_ |-> X.columns,
                    labels |-> {file.rows[i]["Condition"] :
                                   i \in 1..Len(file.rows)}]
        /\ Submitted => input_data.columns = model.feature_names_in_

\* a request answered in the third execution of the script
C6_Witness ==
    /\ pc = "idle"
    /\ clicked
    /\ runs >= 3
    /\ Submitted
    /\ prediction \in model.labels

\* the file cannot be read or lacks a required column
BadFile ==
    \/ ~file.readable
    \/ {"Condition", "Material", "Grade"} \ Range(file.columns) # {}

\* C7: with an unreadable file, or a file without the Condition, Material or
\* Grade column, the execution ends in an error before line 25 completes: no
\* schema is recorded, no model fitted, no form rendered, no request served.
C7_FatalStartup ==
    BadFile =>
        /\ pc \in {"l12", "l23", "l25", "failed"}
        /\ pc = "failed" => error \in {"FileNotFoundError", "KeyError"}
        /\ ~SchemaRecorded
        /\ model = Undef
        /\ material_options = Undef /\ grade_options = Undef
        /\ session_state = [k \in {} |-> 0]
        /\ input_data = Undef /\ prediction = Undef

\* the execution ended at line 25 on a file without the Material column
C7_Witness ==
    /\ file.readable
    /\ "Material" \notin Range(file.columns)
    /\ "Condition" \in Range(file.columns)
    /\ pc = "failed"
    /\ error = "KeyError"
    /\ model = Undef

\* the file with its rows in the order p
Permuted(p) ==
    [columns |-> file.columns,
     rows    |-> [i \in 1..Len(file.rows) |-> file.rows[p[i]]]]

\* C8: the schema line 25 records is the same for every order of the rows of
\* the file: the same column names in the same order, the same baseline dropped.
C8_SchemaDeterminism ==
    pc = "l26" =>
        \A p \in Permutations(1..Len(file.rows)) :
            get_dummies(drop(Permuted(p), {"Condition"}),
                        <<"Material", "Grade">>, TRUE).columns = X.columns

\* a file whose first material and first grade are not the sorted-first ones
C8_Witness ==
    /\ pc = "l26"
    /\ Len(file.rows) >= 2
    /\ Cardinality(Observed("Material")) >= 2
    /\ Cardinality(Observed("Grade")) >= 2
    /\ unique(file.rows, "Material", {}) # sorted(Observed("Material"))
    /\ unique(file.rows, "Grade", {}) # sorted(Observed("Grade"))

\* the numeric columns the form has no input for
UncollectedCols == {"Pipe_Size_mm", "Thickness_mm", "Material_Loss_Percent"}

\* C9: the numeric schema columns the form does not collect hold 0 in the
\* submitted record.
C9_UncollectedZero ==
    Submitted =>
        \A c \in UncollectedCols \cap Range(X.columns) :
            input_data.rows[1][c] = 0

\* C10: the submitted record is the same for every Material and Grade that can
\* be selected, and all its indicator columns are 0.
C10_CategoryIndependence ==
    Submitted =>
        /\ \A m \in Range(material_options), g \in Range(grade_options) :
               encode_input(input_values(session_state, m, g), X.columns)
                   = input_data
        /\ \A f \in CategoricalFields :
               \A c \in Indicators(f, X.columns) : input_data.rows[1][c] = 0

\* a submission of a material that has an indicator column in the schema
C10_Witness ==
    /\ Submitted
    /\ pc = "idle"
    /\ Len(material_options) >= 2
    /\ ("Material_" \o material) \in Range(X.columns)
    /\ ("Grade_" \o grade) \in Range(X.columns)

====
